---- MODULE Spec2Model ----
(***************************************************************************)
(* A model of lumen-core: the rolling MemoryManager, the streaming         *)
(* command executor (streamCommand), the War Room workflow (runWarRoom),   *)
(* the schema router (schemaRouter), the completion wrapper (queryOpenAI), *)
(* the sessions of the API server and the interactive mainLoop.  Each      *)
(* subsystem has its own specification; the variables of the other         *)
(* subsystems stay at their initial values.                                *)
(***************************************************************************)
EXTENDS Integers, Sequences, FiniteSets, TLC

VARIABLES
    \* ---- MemoryManager (src/unnamed/part_000:380-504)
    interactions,   \* this.interactions: the window, oldest first
    summaries,      \* this.summaries: oldest first
    config,         \* this.config
    globalCounter,  \* this.globalCounter
    mpc,            \* where the addInteraction call in flight stands
    callResult,     \* how the last addInteraction ended: returned or threw
    lastOutcome,    \* what the last completed addInteraction did
    pre,            \* history: the manager's fields when the last call started
    assigned,       \* history: every id handed out, in order
    created,        \* history: every summary created, in order
    failedSince,    \* history: a summarization failed since the last summary
    summarizeCalls, \* history: the ids each summarization call was issued with
    hydrated,       \* the object the last getHydratedContext call returned
    restoredFrom,   \* history: the fields of the manager whose export was imported
    imports,        \* history: the number of import calls made
    \* ---- streamCommand (src/lib/terminalStreamer.js:36-162), one invocation
    command,        \* the command argument, a sequence of characters
    invoked,        \* the promise executor has run
    settled,        \* the returned promise: pending, resolved or rejected
    rejectedWith,   \* what it was rejected with
    result,         \* the result object built by the close handler
    channel,        \* the types of the messages sent with ws.send, in order
    spawned,        \* spawn() was called
    procState,      \* the child: none, failed, failedReported, alive, exited, closed
    exitCode,       \* the code the close event carries (null: ended by a signal)
    ignoresTerm,    \* the child ignores SIGTERM
    killed,         \* the local flag `killed`
    procKilled,     \* proc.killed: a signal was delivered by proc.kill
    timer,          \* timeoutId: unset, armed, fired or cleared
    grace,          \* the inner 5 s timer: unset, armed or fired
    signals,        \* the signals delivered to the child, in order
    audit,          \* the statuses passed to logCommand, in order
    chunks,         \* output chunks streamed so far
    firedWhileAlive, \* history: the timeout fired while the child was running
    proposal,       \* history: the proposal the streamed command was taken from
    client,         \* what the WebSocket client is sent: channel and the handler's own messages
    \* ---- runWarRoom (src/lib/workflows/warRoom.js:16-142), one invocation
    wpc,            \* idle, analysis (first await), testing (second await), done, threw
    analysis,       \* what the analysis role returned
    testPlan,       \* what the testing role returned
    verdict,        \* the object runWarRoom returns
    wcalls,         \* the schemas of the queryOpenAI calls issued, in order
    \* ---- schemaRouter (src/lib/analyticsConfig.js:262-327), one invocation
    userInput,      \* the userInput argument, a sequence of characters
    rpc,            \* idle, quick, classifying, dispatching, fallback, done, threw
    rcalls,         \* the schemas of the queryOpenAI calls issued, in order
    classification, \* classification.recommendedAgent once the call resolved
    routed,         \* the schema of the call whose response was returned
    \* ---- queryOpenAI (src/lib/openaiWrapper.js:23-89), one invocation
    qpc,            \* idle, calling (await create), sleeping (await backoff), returned, threw
    maxRetries,     \* the maxRetries option after defaulting
    attempt,        \* the loop variable
    lastError,      \* the error caught last
    thrown,         \* the error queryOpenAI rejected with
    creates,        \* history: chat.completions.create calls issued
    errors,         \* history: the error of every failed attempt, in order
    delays,         \* history: the delays waited, in ms, in order
    \* ---- isDangerous (src/lib/terminalStreamer.js:11-27), called repeatedly
    verdicts,       \* history: the command and the result of every call, in order
    \* ---- the sessions of the API server (src/api-server.js:17-103)
    managers,       \* the MemoryManager objects created so far, in order of creation
    sessions,       \* the sessions Map: session id -> index into managers, 0 when absent
    requests,       \* the requests received so far, each with its position
    actor,          \* history: the session id of the request that took the last step
    \* ---- mainLoop (src/lumen-core.js:49-180)
    lpc,            \* where mainLoop is: waiting for a line, or at one of its awaits
    isChaining,     \* let isChaining
    loopCount,      \* let loopCount
    continues,      \* agentResponse.continue of the response being stored
    agentResponse,  \* const agentResponse of the iteration: missingContext, choice
    routes,         \* history: schemaRouter calls made for the current line
    lines           \* history: lines read so far

memVars == <<interactions, summaries, config, globalCounter, mpc, callResult,
             lastOutcome, pre, assigned, created, failedSince, summarizeCalls,
             hydrated, restoredFrom, imports>>

strVars == <<command, invoked, settled, rejectedWith, result, channel, spawned,
             procState, exitCode, ignoresTerm, killed, procKilled, timer, grace,
             signals, audit, chunks, firedWhileAlive, proposal,
             client>>

warVars == <<wpc, analysis, testPlan, verdict, wcalls>>

rtrVars == <<userInput, rpc, rcalls, classification, routed>>

qryVars == <<qpc, maxRetries, attempt, lastError, thrown, creates, errors, delays>>

fltVars == <<verdicts>>

sesVars == <<managers, sessions, requests, actor>>

loopVars == <<lpc, isChaining, loopCount, continues, agentResponse, routes, lines>>

vars == <<memVars, strVars, warVars, rtrVars, qryVars, fltVars, sesVars, loopVars>>

-----------------------------------------------------------------------------
(* Bounds of the model *)

MaxAdds == 6        \* addInteraction calls in one behaviour of Spec
MaxWindow == 2      \* largest windowSize drawn in Spec
MaxKeep == 2        \* largest maxSummaries drawn in Spec
ScenarioAdds == 34  \* addInteraction calls in one behaviour of SpecScenario
MaxChunks == 2      \* stdout/stderr chunks one child emits
MaxIssues == 2      \* issues in one analysis response
MaxTests == 5       \* tests in one testing response
MaxFragments == 2   \* fragments making up one router input
MaxRetriesOption == 2 \* largest maxRetries a caller passes explicitly
MaxCalls == 2       \* isDangerous calls in one behaviour of SpecFilter
MaxImports == 1     \* import calls in one behaviour of SpecPersist
MaxRequests == 2    \* requests in one behaviour of SpecSessions
MaxLines == 2       \* lines read in one behaviour of SpecMainLoop

(* Program constants *)

qualityThreshold == 75
minTestCases == 2
DefaultWindowSize == 21
DefaultMaxSummaries == 3
TestWindowSize == 5
TestMaxSummaries == 2
DefaultMaxRetries == 3

Roles == {"user", "ai", "system"}

-----------------------------------------------------------------------------
(* MemoryManager *)

Last(s) == s[Len(s)]

Ids(win) == [i \in 1..Len(win) |-> win[i].id]

\* constructor(config = { windowSize: 21, maxSummaries: 3 })
DefaultConfig == [windowSize |-> DefaultWindowSize, maxSummaries |-> DefaultMaxSummaries]

\* new MemoryManager({ windowSize: 5, maxSummaries: 2 }) of Test 3
TestConfig == [windowSize |-> TestWindowSize, maxSummaries |-> TestMaxSummaries]

Configs == [windowSize : 0..MaxWindow, maxSummaries : 0..MaxKeep]

\* The interaction addInteraction pushes: this.globalCounter++ and then
\* { role, text, ts, id: this.globalCounter }.
NewInteractionByLength(role) == [id |-> Len(interactions) + 1, role |-> role]

NewInteraction(role) == [id |-> globalCounter + 1, role |-> role]

\* A field of the config that was not given is undefined; it is written -1
\* here (no configuration with a negative number is drawn).
Undefined == 0 - 1

\* a > b of JavaScript for a number a: false when b is undefined
GreaterThan(a, b) == b # Undefined /\ a > b

\* if (this.interactions.length > this.config.windowSize)
OverflowsLate(win) == Len(win) > config.windowSize + 1

Overflows(win) == GreaterThan(Len(win), config.windowSize)

\* const contextToSummarize = this.interactions, and the conversationText
\* built from all of it
contextToSummarizeOldestOnly(win) == <<win[1]>>

contextToSummarize(win) == win

\* this.interactions.shift()
ShiftKeepNewest(win) == <<Last(win)>>

ShiftNewest(win) == SubSeq(win, 1, Len(win) - 1)

Shift(win) == Tail(win)

\* range: { startId: contextToSummarize[0].id, endId: contextToSummarize[length - 1].id }
SummaryRangeContiguous(ctx) ==
    [startId |-> IF created = <<>> THEN ctx[1].id ELSE Last(created).range.endId + 1,
     endId |-> Last(ctx).id]

SummaryRange(ctx) == [startId |-> ctx[1].id, endId |-> Last(ctx).id]

\* this.summaries.push(newSummary);
\* if (this.summaries.length > this.config.maxSummaries) this.summaries.shift();
KeepRecentDropNewest(sums, s) ==
    IF Len(sums) + 1 > config.maxSummaries THEN sums ELSE Append(sums, s)

KeepRecent(sums, s) ==
    IF GreaterThan(Len(sums) + 1, config.maxSummaries)
    THEN Tail(Append(sums, s)) ELSE Append(sums, s)

\* The try/catch of _createSummary: a failure of queryOpenAI is logged and
\* _createSummary returns normally.
CreateSummaryRethrows(providerOk) == IF providerOk THEN "returned" ELSE "threw"

CreateSummaryOutcome(providerOk) == "returned"

NoContext == [none |-> TRUE]
NoManager == [none |-> TRUE]

MemInit(cfgs) ==
    /\ interactions = <<>>
    /\ summaries = <<>>
    /\ config \in cfgs
    /\ globalCounter = 0
    /\ mpc = "idle"
    /\ callResult = "none"
    /\ lastOutcome = "none"
    /\ pre = [interactions |-> <<>>, summaries |-> <<>>, counter |-> 0]
    /\ assigned = <<>>
    /\ created = <<>>
    /\ failedSince = FALSE
    /\ summarizeCalls = <<>>
    /\ hydrated = NoContext
    /\ restoredFrom = NoManager
    /\ imports = 0

\* addInteraction up to its await of _createSummary, or to its return when the
\* window does not overflow.
AddInteraction(role, maxCalls) ==
    /\ mpc = "idle"
    /\ globalCounter < maxCalls
    /\ LET item == NewInteraction(role)
           win == Append(interactions, item)
       IN /\ globalCounter' = globalCounter + 1
          /\ interactions' = win
          /\ assigned' = Append(assigned, item.id)
          /\ pre' = [interactions |-> interactions, summaries |-> summaries,
                     counter |-> globalCounter]
          /\ IF Overflows(win)
             THEN /\ mpc' = "summarizing"
                  /\ callResult' = "pending"
                  /\ lastOutcome' = "pending"
                  /\ summarizeCalls' =
                        Append(summarizeCalls, Ids(contextToSummarize(win)))
             ELSE /\ mpc' = "idle"
                  /\ callResult' = "returned"
                  /\ lastOutcome' = "appended"
                  /\ UNCHANGED summarizeCalls
    /\ UNCHANGED <<summaries, config, created, failedSince, hydrated, restoredFrom,
                   imports>>

\* queryOpenAI resolves inside _createSummary: the summary is stored, then
\* addInteraction shifts the window and returns.
SummarizeOk ==
    /\ mpc = "summarizing"
    /\ LET s == [range |-> SummaryRange(interactions)]
       IN /\ summaries' = KeepRecent(summaries, s)
          /\ created' = Append(created,
                               [range |-> s.range,
                                afterFailure |-> failedSince])
    /\ interactions' = Shift(interactions)
    /\ mpc' = "idle"
    /\ callResult' = CreateSummaryOutcome(TRUE)
    /\ lastOutcome' = "summarized"
    /\ failedSince' = FALSE
    /\ UNCHANGED <<config, globalCounter, pre, assigned, summarizeCalls, hydrated,
                   restoredFrom, imports>>

\* queryOpenAI rejects inside _createSummary.
SummarizeFail ==
    /\ mpc = "summarizing"
    /\ LET how == CreateSummaryOutcome(FALSE)
       IN /\ callResult' = how
          /\ interactions' = IF how = "returned" THEN Shift(interactions) ELSE interactions
    /\ mpc' = "idle"
    /\ lastOutcome' = "summaryFailed"
    /\ failedSince' = TRUE
    /\ UNCHANGED <<summaries, config, globalCounter, pre, assigned, created,
                   summarizeCalls, hydrated, restoredFrom, imports>>

-----------------------------------------------------------------------------
(* Strings are sequences of one-character strings. *)

IsSpace(ch) == ch \in {" ", "\t", "\n", "\r"}

\* what `.` of a regular expression does not match
IsLineEnd(ch) == ch \in {"\n", "\r"}

\* lit occurs in s at position i
MatchAt(s, i, lit) ==
    /\ i >= 1
    /\ i + Len(lit) - 1 <= Len(s)
    /\ \A k \in 1..Len(lit) : s[i + k - 1] = lit[k]

Contains(s, lit) == \E i \in 1..Len(s) : MatchAt(s, i, lit)

\* s[a..b] is one or more white-space characters: \s+
SpacesBetween(s, a, b) == a <= b /\ \A k \in a..b : IsSpace(s[k])

\* s[a..b] is any number of characters other than line ends: .*
AnyBetween(s, a, b) == \A k \in a..b : ~IsLineEnd(s[k])

\* /l1\s+/ matched so that the white space ends right before position j
LitSpacesBefore(s, l1, j) ==
    \E i \in 1..Len(s) :
        /\ MatchAt(s, i, l1)
        /\ SpacesBetween(s, i + Len(l1), j - 1)

\* /l1.*/ matched so that the run of characters ends right before position j
LitAnyBefore(s, l1, j) ==
    \E i \in 1..Len(s) :
        /\ MatchAt(s, i, l1)
        /\ i + Len(l1) <= j
        /\ AnyBetween(s, i + Len(l1), j - 1)

\* /.*l3/ matched so that the run of characters starts at position j
AnyThenLit(s, j, l3) ==
    \E k \in j..Len(s) :
        /\ MatchAt(s, k, l3)
        /\ AnyBetween(s, j, k - 1)

\* /l1\s+l2/
LitSpacesLit(s, l1, l2) ==
    \E j \in 1..Len(s) : MatchAt(s, j, l2) /\ LitSpacesBefore(s, l1, j)

\* /l1.*l2.*l3/
LitAnyLitAnyLit(s, l1, l2, l3) ==
    \E j \in 1..Len(s) :
        /\ MatchAt(s, j, l2)
        /\ LitAnyBefore(s, l1, j)
        /\ AnyThenLit(s, j + Len(l2), l3)

-----------------------------------------------------------------------------
(* The dangerous-pattern filter, src/lib/terminalStreamer.js:11-27 *)

\* /rm\s+-rf\s+\/($|\s)/
PatRmRoot(s) ==
    \E j \in 1..Len(s) :
        /\ MatchAt(s, j, <<"-","r","f">>)
        /\ LitSpacesBefore(s, <<"r","m">>, j)
        /\ \E k \in (j + 4)..Len(s) :
              /\ s[k] = "/"
              /\ SpacesBetween(s, j + 3, k - 1)
              /\ (k = Len(s) \/ IsSpace(s[k + 1]))

\* /:\(\)\{.*:\|:.*\}/
PatForkBomb(s) == LitAnyLitAnyLit(s, <<":","(",")","{">>, <<":","|",":">>, <<"}">>)

\* /\/dev\/sda/
PatRawDisk(s) == Contains(s, <<"/","d","e","v","/","s","d","a">>)

\* /mkfs/
PatMkfs(s) == Contains(s, <<"m","k","f","s">>)

\* /dd\s+if=/
PatDiskDump(s) == LitSpacesLit(s, <<"d","d">>, <<"i","f","=">>)

\* /\/etc\/passwd/
PatPasswd(s) == Contains(s, <<"/","e","t","c","/","p","a","s","s","w","d">>)

\* /curl.*\|.*bash/
PatCurlBash(s) == LitAnyLitAnyLit(s, <<"c","u","r","l">>, <<"|">>, <<"b","a","s","h">>)

\* /wget.*\|.*sh/
PatWgetSh(s) == LitAnyLitAnyLit(s, <<"w","g","e","t">>, <<"|">>, <<"s","h">>)

\* DANGEROUS_PATTERNS.some(pattern => pattern.test(command)).  No pattern
\* carries the g or y flag, so test() searches from index 0 and leaves the
\* pattern's lastIndex alone (with the g flag a pattern that has just matched
\* a command resumes behind the match and misses it on the next call).
isDangerousGlobalFlag(s) ==
    /\ \/ PatRmRoot(s)
       \/ PatForkBomb(s)
       \/ PatRawDisk(s)
       \/ PatMkfs(s)
       \/ PatDiskDump(s)
       \/ PatPasswd(s)
       \/ PatCurlBash(s)
       \/ PatWgetSh(s)
    /\ ~(/\ Len(verdicts) > 0
         /\ verdicts[Len(verdicts)] = [command |-> s, dangerous |-> TRUE])

isDangerous(s) ==
    \/ PatRmRoot(s)
    \/ PatForkBomb(s)
    \/ PatRawDisk(s)
    \/ PatMkfs(s)
    \/ PatDiskDump(s)
    \/ PatPasswd(s)
    \/ PatCurlBash(s)
    \/ PatWgetSh(s)

(* The commands streamCommand is invoked with *)

CmdRmRoot == <<"r","m"," ","-","r","f"," ","/">>
CmdRmRootThenMore == <<"r","m"," "," ","-","r","f","\t","/"," ","-","-","n","o","-","p","r","e","s","e","r","v","e","-","r","o","o","t">>
CmdRmBuild == <<"r","m"," ","-","r","f"," ",".","/","b","u","i","l","d">>
CmdRmHome == <<"r","m"," ","-","r","f"," ","/","h","o","m","e","/","u","s","e","r","/","t","m","p">>
CmdCurlBash == <<"c","u","r","l"," ","h","t","t","p",":","/","/","x"," ","|"," ","b","a","s","h">>
CmdWgetSh == <<"w","g","e","t"," ","-","q","O","-"," ","h","t","t","p",":","/","/","x","|","s","h">>
CmdCurlOnly == <<"c","u","r","l"," ","h","t","t","p",":","/","/","x"," ","-","o"," ","o","u","t">>
CmdEchoHello == <<"e","c","h","o"," ","h","e","l","l","o">>
CmdForkBomb == <<":","(",")","{"," ",":","|",":","&"," ","}",";",":">>
CmdDiskDump == <<"d","d"," "," ","i","f","=","/","d","e","v","/","z","e","r","o"," ","o","f","=","i","m","g">>
CmdRawDisk == <<"c","a","t"," ","x"," ",">"," ","/","d","e","v","/","s","d","a">>
CmdMkfs == <<"m","k","f","s",".","e","x","t","4"," ","d","i","s","k",".","i","m","g">>
CmdPasswd == <<"c","a","t"," ","/","e","t","c","/","p","a","s","s","w","d">>
CmdSleep == <<"s","l","e","e","p"," ","6","0","0">>
CmdCurlNewlineBash == <<"c","u","r","l"," ","x","\n","e","c","h","o"," ","a"," ","|"," ","b","a","s","h">>

Commands ==
    {CmdRmRoot, CmdRmRootThenMore, CmdRmBuild, CmdRmHome, CmdCurlBash, CmdWgetSh,
     CmdCurlOnly, CmdEchoHello, CmdForkBomb, CmdDiskDump, CmdRawDisk, CmdMkfs,
     CmdPasswd, CmdSleep, CmdCurlNewlineBash}

FltInit == verdicts = << >>

\* One call of isDangerous: the safety check of a streamCommand invocation,
\* line 49; the invocations follow one another in the same process.
IsDangerousCall(c) ==
    /\ Len(verdicts) < MaxCalls
    /\ verdicts' = Append(verdicts, [command |-> c, dangerous |-> isDangerous(c)])

-----------------------------------------------------------------------------
(* streamCommand, src/lib/terminalStreamer.js:36-162 *)

\* The code argument of the close event: <<n>> for the number n, << >> for null.
Null == << >>
Code(n) == <<n>>
NoResult == [status |-> "none"]
\* the code of the close event after a failed spawn (-ENOENT)
SpawnErrno == Code(0 - 2)

\* The proposals a streamed command can come from: the router's
\* requiresApproval flag and whether the caller approved.  The execute message
\* of the WebSocket carries command, cwd and sessionId only
\* (src/api-server.js:153-154), and streamCommand receives the command text.
NoProposal == [none |-> TRUE]

Proposals == [requiresApproval : BOOLEAN, approved : BOOLEAN]

StrInit ==
    /\ command = <<>>
    /\ invoked = FALSE
    /\ settled = "pending"
    /\ rejectedWith = "none"
    /\ result = NoResult
    /\ channel = <<>>
    /\ spawned = FALSE
    /\ procState = "none"
    /\ exitCode = Null
    /\ ignoresTerm = FALSE
    /\ killed = FALSE
    /\ procKilled = FALSE
    /\ timer = "unset"
    /\ grace = "unset"
    /\ signals = <<>>
    /\ audit = <<>>
    /\ chunks = 0
    /\ firedWhileAlive = FALSE
    /\ proposal = NoProposal
    /\ client = << >>

\* if (isDangerous(command)) { ws.send(error); return reject(...) }: whether the
\* executor goes on to send start and spawn
ProceedsAlways(c) == TRUE

ProceedsToSpawn(c) == ~isDangerous(c)

\* status: code === 0 ? 'success' : 'error'
ResultStatus(code) == IF code = Code(0) THEN "success" ELSE "error"

\* The message handler of the WebSocket, src/api-server.js:149-171, the only
\* caller of streamCommand: the ack it sends before the call, and the error
\* message its catch sends when the awaited promise rejects.
HandlerAck == <<"ack">>

HandlerCatch(rejects) == IF rejects THEN <<"error">> ELSE << >>

\* The promise executor, lines 43-161: the safety check, the start message,
\* spawn, the registration of the handlers and of the timeout timer.
StreamInvoke(c, spawnOk, ign, from) ==
    /\ ~invoked
    /\ invoked' = TRUE
    /\ proposal' = from
    /\ command' = c
    /\ LET blocked == isDangerous(c)
           goesOn == ProceedsToSpawn(c)
           sent == (IF blocked THEN <<"error">> ELSE <<>>)
                       \o (IF goesOn THEN <<"start">> ELSE <<>>)
       IN /\ channel' = sent
          /\ client' = HandlerAck \o sent \o HandlerCatch(blocked)
          /\ settled' = IF blocked THEN "rejected" ELSE "pending"
          /\ rejectedWith' = IF blocked THEN "Dangerous command blocked" ELSE "none"
          /\ spawned' = goesOn
          /\ procState' = IF ~goesOn THEN "none"
                          ELSE IF spawnOk THEN "alive" ELSE "failed"
          /\ ignoresTerm' = (goesOn /\ spawnOk /\ ign)
          /\ timer' = IF goesOn THEN "armed" ELSE "unset"
    /\ UNCHANGED <<result, exitCode, killed, procKilled, grace, signals, audit,
                   chunks, firedWhileAlive>>

\* proc.stdout.on('data') and proc.stderr.on('data'), lines 76-95: output may
\* arrive until the close event.
ProcData(kind) ==
    /\ procState \in {"alive", "exited"}
    /\ chunks < MaxChunks
    /\ chunks' = chunks + 1
    /\ channel' = Append(channel, kind)
    /\ client' = Append(client, kind)
    /\ UNCHANGED <<command, invoked, settled, rejectedWith, result, spawned,
                   procState, exitCode, ignoresTerm, killed, procKilled, timer,
                   grace, signals, audit, firedWhileAlive,
                   proposal>>

\* The child ends by itself with an exit code.
ProcExits(code) ==
    /\ procState = "alive"
    /\ procState' = "exited"
    /\ exitCode' = Code(code)
    /\ UNCHANGED <<command, invoked, settled, rejectedWith, result, channel,
                   spawned, ignoresTerm, killed, procKilled, timer, grace,
                   signals, audit, chunks, firedWhileAlive,
                   proposal, client>>

\* The child is ended by a delivered signal: SIGKILL always, SIGTERM unless
\* the child ignores it.  The close event then carries code null.
ProcDiesOfSignal ==
    /\ procState = "alive"
    /\ \E i \in 1..Len(signals) :
          signals[i] = "SIGKILL" \/ (signals[i] = "SIGTERM" /\ ~ignoresTerm)
    /\ procState' = "exited"
    /\ exitCode' = Null
    /\ UNCHANGED <<command, invoked, settled, rejectedWith, result, channel,
                   spawned, ignoresTerm, killed, procKilled, timer, grace,
                   signals, audit, chunks, firedWhileAlive,
                   proposal, client>>

\* proc.on('error'), lines 130-137: the spawn failed.
ProcError ==
    /\ procState = "failed"
    /\ procState' = "failedReported"
    /\ exitCode' = SpawnErrno
    /\ channel' = Append(channel, "error")
    /\ client' = Append(client, "error") \o HandlerCatch(settled = "pending")
    /\ settled' = IF settled = "pending" THEN "rejected" ELSE settled
    /\ rejectedWith' = IF settled = "pending" THEN "spawn error" ELSE rejectedWith
    /\ UNCHANGED <<command, invoked, result, spawned, ignoresTerm, killed,
                   procKilled, timer, grace, signals, audit, chunks,
                   firedWhileAlive,
                   proposal>>

\* Both proc.on('close') handlers, lines 98-127 and 158-160: the result, the
\* complete message, the audit entry, resolve, clearTimeout.
ProcClose ==
    /\ procState \in {"exited", "failedReported"}
    /\ procState' = "closed"
    /\ result' = [status |-> ResultStatus(exitCode), exitCode |-> exitCode,
                  killed |-> killed]
    /\ channel' = Append(channel, "complete")
    /\ client' = Append(client, "complete")
    /\ audit' = Append(audit, ResultStatus(exitCode))
    /\ settled' = IF settled = "pending" THEN "resolved" ELSE settled
    /\ timer' = IF timer = "armed" THEN "cleared" ELSE timer
    /\ UNCHANGED <<command, invoked, rejectedWith, spawned, exitCode, ignoresTerm,
                   killed, procKilled, grace, signals, chunks, firedWhileAlive,
                   proposal>>

\* proc.kill(sig): the signal is delivered, and proc.killed set, only while
\* the child process exists.
Delivered(sig) == IF procState = "alive" THEN <<sig>> ELSE <<>>

\* The timeout callback, lines 140-155.  The error event of a failed spawn is
\* emitted on the next tick, before any timer can run.
TimeoutFires ==
    /\ timer = "armed"
    /\ procState # "failed"
    /\ timer' = "fired"
    /\ killed' = TRUE
    /\ signals' = signals \o Delivered("SIGTERM")
    /\ procKilled' = (procKilled \/ procState = "alive")
    /\ grace' = "armed"
    /\ channel' = Append(channel, "timeout")
    /\ client' = Append(client, "timeout")
    /\ firedWhileAlive' = (procState = "alive")
    /\ UNCHANGED <<command, invoked, settled, rejectedWith, result, spawned,
                   procState, exitCode, ignoresTerm, audit, chunks,
                   proposal>>

\* The inner callback, lines 144-148: if (!proc.killed) proc.kill('SIGKILL').
GraceFires ==
    /\ grace = "armed"
    /\ grace' = "fired"
    /\ signals' = IF ~procKilled THEN signals \o Delivered("SIGKILL") ELSE signals
    /\ procKilled' = (procKilled \/ procState = "alive")
    /\ UNCHANGED <<command, invoked, settled, rejectedWith, result, channel,
                   spawned, procState, exitCode, ignoresTerm, killed, timer,
                   audit, chunks, firedWhileAlive,
                   proposal, client>>

-----------------------------------------------------------------------------
(* runWarRoom, src/lib/workflows/warRoom.js:16-177 *)

\* A field of a response that may be missing: << >> when missing, <<v>> else.
Omitted == << >>
Some(v) == <<v>>

\* x || d on a number field: d when the field is missing or 0
OrDefault(opt, d) == IF opt = Omitted \/ opt = Some(0) THEN d ELSE opt[1]

\* x || [] on an array field
OrEmpty(opt) == IF opt = Omitted THEN << >> ELSE opt[1]

Severities == {"critical", "high", "medium", "low"}

IssueLists == UNION {[1..n -> Severities] : n \in 0..MaxIssues}

TestList(n) == [i \in 1..n |-> "test"]

\* The responses of the analysis role: codeQuality.score, codeQuality.issues
\* (read by runWarRoom) and codeQuality.issuesFound (the field of the schema).
AnalysisOutputs ==
    [score : {Omitted} \cup {Some(n) : n \in {0, 50, 74, 75, 80, 90, 100}},
     issues : {Omitted} \cup {Some(l) : l \in IssueLists},
     issuesFound : {<< >>, <<"unvalidated input">>}]

\* The responses of the testing role: tests and coverageTarget.
TestingOutputs ==
    [tests : {Omitted} \cup {Some(TestList(n)) : n \in 0..MaxTests},
     coverageTarget : {Omitted, Some(0), Some(90)}]

NoOutput == [none |-> TRUE]
NoVerdict == [verdict |-> "none"]

\* issues.filter(issue => issue.severity === 'critical' || issue.severity === 'high')
FilterCritical(issues) ==
    LET keep == {i \in 1..Len(issues) : issues[i] \in {"critical", "high"}}
        F[n \in 0..Len(issues)] ==
            IF n = 0 THEN << >>
            ELSE IF n \in keep THEN Append(F[n - 1], issues[n]) ELSE F[n - 1]
    IN F[Len(issues)]

\* const isSafe = (score >= qualityThreshold && tests.length >= minTestCases &&
\*                 criticalIssues.length === 0)
isSafeStrictScore(score, tests, criticalIssues) ==
    /\ score > qualityThreshold
    /\ Len(tests) >= minTestCases
    /\ Len(criticalIssues) = 0

isSafe(score, tests, criticalIssues) ==
    /\ score >= qualityThreshold
    /\ Len(tests) >= minTestCases
    /\ Len(criticalIssues) = 0

\* The consensus evaluation and the returned report, lines 49-51, 84-85, 97-136,
\* with the score and coverage lines of generateSummary, lines 148-157.
BuildVerdict(a, t) ==
    LET issues == OrEmpty(a.issues)
        score == OrDefault(a.score, 50)
        tests == OrEmpty(t.tests)
        coverage == OrDefault(t.coverageTarget, 80)
        criticalIssues == FilterCritical(issues)
        safe == isSafe(score, tests, criticalIssues)
    IN [verdict |-> IF safe THEN "APPROVED" ELSE "REJECTED",
        isSafe |-> safe,
        qualityScore |-> score,
        issues |-> issues,
        testCount |-> Len(tests),
        coverage |-> coverage,
        criticalIssues |-> criticalIssues,
        summaryScore |-> OrDefault(a.score, 0),
        summaryCoverage |-> OrDefault(t.coverageTarget, 0)]

WarInit ==
    /\ wpc = "idle"
    /\ analysis = NoOutput
    /\ testPlan = NoOutput
    /\ verdict = NoVerdict
    /\ wcalls = << >>

\* runWarRoom up to its first await: the analysis call is issued.
RunWarRoom ==
    /\ wpc = "idle"
    /\ wpc' = "analysis"
    /\ wcalls' = Append(wcalls, "codeAnalyzerAgentSchema")
    /\ UNCHANGED <<analysis, testPlan, verdict>>

\* The analysis call resolves; the testing call is issued.
AnalysisReturns(a) ==
    /\ wpc = "analysis"
    /\ analysis' = a
    /\ wpc' = "testing"
    /\ wcalls' = Append(wcalls, "testingAgentSchema")
    /\ UNCHANGED <<testPlan, verdict>>

\* The analysis call rejects: catch, then throw new Error('War Room failed: ...').
AnalysisFails ==
    /\ wpc = "analysis"
    /\ wpc' = "threw"
    /\ UNCHANGED <<analysis, testPlan, verdict, wcalls>>

\* The testing call resolves; the verdict is computed and returned.
TestingReturns(t) ==
    /\ wpc = "testing"
    /\ testPlan' = t
    /\ verdict' = BuildVerdict(analysis, t)
    /\ wpc' = "done"
    /\ UNCHANGED <<analysis, wcalls>>

\* The testing call rejects: catch, then throw new Error('War Room failed: ...')
\* (as opposed to a verdict computed from the analysis alone).
TestingFailsPartialVerdict ==
    /\ wpc = "testing"
    /\ verdict' = BuildVerdict(analysis, [tests |-> Omitted, coverageTarget |-> Omitted])
    /\ wpc' = "done"
    /\ UNCHANGED <<analysis, testPlan, wcalls>>

TestingFails ==
    /\ wpc = "testing"
    /\ wpc' = "threw"
    /\ UNCHANGED <<analysis, testPlan, verdict, wcalls>>

-----------------------------------------------------------------------------
(* schemaRouter, src/lib/analyticsConfig.js:217-327 *)

AgentOrder == <<"scaffold", "fileOp", "analyze", "test", "docs">>

\* const keywords = { scaffold: [...], fileOp: [...], analyze: [...], test: [...], docs: [...] }
keywords(agentType) ==
    IF agentType = "scaffold" THEN
        {<<"i","n","i","t","i","a","l","i","z","e">>,
         <<"s","c","a","f","f","o","l","d">>,
         <<"c","r","e","a","t","e"," ","p","r","o","j","e","c","t">>,
         <<"s","e","t","u","p"," ","p","r","o","j","e","c","t">>,
         <<"n","e","w"," ","p","r","o","j","e","c","t">>,
         <<"b","o","o","t","s","t","r","a","p">>}
    ELSE IF agentType = "fileOp" THEN
        {<<"c","r","e","a","t","e"," ","f","i","l","e">>,
         <<"w","r","i","t","e"," ","f","i","l","e">>,
         <<"d","e","l","e","t","e"," ","f","i","l","e">>,
         <<"u","p","d","a","t","e"," ","f","i","l","e">>,
         <<"m","o","v","e"," ","f","i","l","e">>,
         <<"r","e","n","a","m","e"," ","f","i","l","e">>}
    ELSE IF agentType = "analyze" THEN
        {<<"a","n","a","l","y","z","e"," ","c","o","d","e">>,
         <<"r","e","v","i","e","w"," ","c","o","d","e">>,
         <<"c","h","e","c","k"," ","q","u","a","l","i","t","y">>,
         <<"f","i","n","d"," ","b","u","g","s">>,
         <<"c","o","d","e"," ","r","e","v","i","e","w">>,
         <<"r","e","f","a","c","t","o","r">>}
    ELSE IF agentType = "test" THEN
        {<<"g","e","n","e","r","a","t","e"," ","t","e","s","t","s">>,
         <<"w","r","i","t","e"," ","t","e","s","t","s">>,
         <<"c","r","e","a","t","e"," ","t","e","s","t","s">>,
         <<"t","e","s","t"," ","t","h","i","s">>,
         <<"u","n","i","t"," ","t","e","s","t">>,
         <<"i","n","t","e","g","r","a","t","i","o","n"," ","t","e","s","t">>}
    ELSE IF agentType = "docs" THEN
        {<<"d","o","c","u","m","e","n","t">>,
         <<"g","e","n","e","r","a","t","e"," ","d","o","c","s">>,
         <<"c","r","e","a","t","e"," ","d","o","c","u","m","e","n","t","a","t","i","o","n">>,
         <<"e","x","p","l","a","i","n"," ","t","h","i","s"," ","c","o","d","e">>}
    ELSE {}

UpperLetters == <<"A","B","C","D","E","F","G","H","I","J","K","L","M","N","O","P","Q","R","S","T","U","V","W","X","Y","Z">>
LowerLetters == <<"a","b","c","d","e","f","g","h","i","j","k","l","m","n","o","p","q","r","s","t","u","v","w","x","y","z">>

LowerChar(ch) ==
    IF \E k \in 1..Len(UpperLetters) : UpperLetters[k] = ch
    THEN LowerLetters[CHOOSE k \in 1..Len(UpperLetters) : UpperLetters[k] = ch]
    ELSE ch

\* userInput.toLowerCase()
NotLowered(s) == s

toLowerCase(s) == [i \in 1..Len(s) |-> LowerChar(s[i])]

\* for (const [agentType, words] of Object.entries(keywords))
\*   if (words.some(word => lowerInput.includes(word))) ...: the first agent, in
\* the order of the object's keys, one of whose words the input contains
QuickMatchLast(lowerInput) ==
    LET hits == {i \in 1..Len(AgentOrder) :
                    \E word \in keywords(AgentOrder[i]) : Contains(lowerInput, word)}
    IN IF hits = {} THEN "none"
       ELSE AgentOrder[CHOOSE i \in hits : \A j \in hits : j <= i]

QuickMatch(lowerInput) ==
    LET hits == {i \in 1..Len(AgentOrder) :
                    \E word \in keywords(AgentOrder[i]) : Contains(lowerInput, word)}
    IN IF hits = {} THEN "none"
       ELSE AgentOrder[CHOOSE i \in hits : \A j \in hits : i <= j]

\* the keys of SCHEMA_REGISTRY
RegistryKeys == {"scaffold", "fileOp", "analyze", "test", "docs", "default"}

\* what the classification call may name: the enum of intentClassificationSchema
\* and names outside it, one of them a property every object inherits
ClassifiedNames == RegistryKeys \cup {"planner", "constructor"}

\* SCHEMA_REGISTRY[classification.recommendedAgent] || SCHEMA_REGISTRY.default
SelectedSchema(name) ==
    IF name \in RegistryKeys THEN name
    ELSE IF name = "constructor" THEN "Object.prototype.constructor"
    ELSE "default"

(* The inputs schemaRouter is called with: fragments joined by single spaces *)

FragInitialize == <<"I","n","i","t","i","a","l","i","z","e">>
FragCreateFile == <<"c","r","e","a","t","e"," ","F","I","L","E">>
FragRefactor == <<"R","e","f","a","c","t","o","r">>
FragUnitTest == <<"U","N","I","T"," ","T","E","S","T">>
FragDocument == <<"D","o","c","u","m","e","n","t">>
FragHello == <<"h","e","l","l","o">>
FragCreate == <<"C","r","e","a","t","e">>
FragProject == <<"p","r","o","j","e","c","t">>

Fragments ==
    {FragInitialize, FragCreateFile, FragRefactor, FragUnitTest, FragDocument,
     FragHello, FragCreate, FragProject}

RECURSIVE JoinFragments(_)
JoinFragments(fs) ==
    IF Len(fs) = 1 THEN fs[1]
    ELSE fs[1] \o <<" ">> \o JoinFragments(Tail(fs))

Inputs == {JoinFragments(fs) : fs \in UNION {[1..n -> Fragments] : n \in 1..MaxFragments}}

RtrInit ==
    /\ userInput = << >>
    /\ rpc = "idle"
    /\ rcalls = << >>
    /\ classification = "none"
    /\ routed = "none"

\* schemaRouter up to its first await: the keyword loop, then either the
\* dispatch of the quick match or the classification call.
SchemaRouter(input) ==
    /\ rpc = "idle"
    /\ userInput' = input
    /\ LET agentType == QuickMatch(toLowerCase(input))
       IN IF agentType # "none"
          THEN /\ rpc' = "quick"
               /\ rcalls' = Append(rcalls, agentType)
          ELSE /\ rpc' = "classifying"
               /\ rcalls' = Append(rcalls, "intentClassification")
    /\ UNCHANGED <<classification, routed>>

\* The call of the quick match resolves: its response is returned.
QuickReturns ==
    /\ rpc = "quick"
    /\ rpc' = "done"
    /\ routed' = Last(rcalls)
    /\ UNCHANGED <<userInput, rcalls, classification>>

\* The call of the quick match rejects, outside the try block.
QuickFails ==
    /\ rpc = "quick"
    /\ rpc' = "threw"
    /\ UNCHANGED <<userInput, rcalls, classification, routed>>

\* The classification call resolves: the selected schema is dispatched.
ClassifyReturns(name) ==
    /\ rpc = "classifying"
    /\ rpc' = "dispatching"
    /\ classification' = name
    /\ rcalls' = Append(rcalls, SelectedSchema(name))
    /\ UNCHANGED <<userInput, routed>>

\* The classification call rejects: catch, and the default schema is called.
ClassifyFails ==
    /\ rpc = "classifying"
    /\ rpc' = "fallback"
    /\ rcalls' = Append(rcalls, "default")
    /\ UNCHANGED <<userInput, classification, routed>>

\* The dispatch after classification resolves.
DispatchReturns ==
    /\ rpc = "dispatching"
    /\ rpc' = "done"
    /\ routed' = Last(rcalls)
    /\ UNCHANGED <<userInput, rcalls, classification>>

\* The dispatch after classification rejects, inside the try block.
DispatchFails ==
    /\ rpc = "dispatching"
    /\ rpc' = "fallback"
    /\ rcalls' = Append(rcalls, "default")
    /\ UNCHANGED <<userInput, classification, routed>>

\* The call of the catch block resolves.
FallbackReturns ==
    /\ rpc = "fallback"
    /\ rpc' = "done"
    /\ routed' = "default"
    /\ UNCHANGED <<userInput, rcalls, classification>>

\* The call of the catch block rejects.
FallbackFails ==
    /\ rpc = "fallback"
    /\ rpc' = "threw"
    /\ UNCHANGED <<userInput, rcalls, classification, routed>>

-----------------------------------------------------------------------------
(* queryOpenAI, src/lib/openaiWrapper.js:23-89 *)

\* The statuses an API error carries; 429 is the rate limit, 500-599 the
\* server errors, the others are client errors.
ErrorStatuses == {400, 404, 429, 500, 503, 599}

\* What an attempt can fail with: an API error with a status, a connection
\* error without one, or the SyntaxError of JSON.parse on the response content.
Errors ==
    {[name |-> "APIError", status |-> Some(n)] : n \in ErrorStatuses}
    \cup {[name |-> "APIConnectionError", status |-> Omitted],
          [name |-> "SyntaxError", status |-> Omitted]}

NoError == [name |-> "none"]

\* the error object caught in the attempt numbered at
Caught(error, at) == [name |-> error.name, status |-> error.status, at |-> at]

\* const isRateLimitError = error.status === 429
isRateLimitError(error) == error.status = Some(429)

\* const isServerError = error.status >= 500 && error.status < 600
isServerError(error) ==
    /\ error.status # Omitted
    /\ error.status[1] >= 500
    /\ error.status[1] < 600

\* const shouldRetry = (isRateLimitError || isServerError) && attempt < maxRetries
shouldRetryAnyError(error, n) == n < maxRetries

shouldRetry(error, n) ==
    /\ isRateLimitError(error) \/ isServerError(error)
    /\ n < maxRetries

\* const delayMs = Math.pow(2, attempt) * 1000
delayMsLinear(n) == (n + 1) * 1000

delayMs(n) == (2 ^ n) * 1000

\* the maxRetries values of a call: the default, or one the caller passes
RetryOptions == {DefaultMaxRetries} \cup 0..MaxRetriesOption

QryInit ==
    /\ qpc = "idle"
    /\ maxRetries = DefaultMaxRetries
    /\ attempt = 0
    /\ lastError = NoError
    /\ thrown = NoError
    /\ creates = 0
    /\ errors = << >>
    /\ delays = << >>

\* queryOpenAI up to its first await: options destructured, the loop entered
\* with attempt = 0 (0 <= maxRetries), the first create call issued.
QueryOpenAI(mr) ==
    /\ qpc = "idle"
    /\ maxRetries' = mr
    /\ attempt' = 0
    /\ creates' = creates + 1
    /\ qpc' = "calling"
    /\ UNCHANGED <<lastError, thrown, errors, delays>>

\* The create call resolves and JSON.parse succeeds: the response is returned.
AttemptSucceeds ==
    /\ qpc = "calling"
    /\ qpc' = "returned"
    /\ UNCHANGED <<maxRetries, attempt, lastError, thrown, creates, errors, delays>>

\* The create call rejects or JSON.parse throws: the catch block, which either
\* starts the backoff sleep or rethrows.
AttemptFails(error) ==
    /\ qpc = "calling"
    /\ lastError' = Caught(error, attempt)
    /\ errors' = Append(errors, Caught(error, attempt))
    /\ IF shouldRetry(error, attempt)
       THEN /\ delays' = Append(delays, delayMs(attempt))
            /\ qpc' = "sleeping"
            /\ UNCHANGED thrown
       ELSE /\ thrown' = Caught(error, attempt)
            /\ qpc' = "threw"
            /\ UNCHANGED delays
    /\ UNCHANGED <<maxRetries, attempt, creates>>

\* The backoff timer fires: continue, attempt++, attempt <= maxRetries holds,
\* the next create call is issued.
BackoffEnds ==
    /\ qpc = "sleeping"
    /\ attempt' = attempt + 1
    /\ creates' = creates + 1
    /\ qpc' = "calling"
    /\ UNCHANGED <<maxRetries, lastError, thrown, errors, delays>>

-----------------------------------------------------------------------------
(* MemoryManager: getHydratedContext, export, import,
   src/unnamed/part_000:460-503 *)

Reverse(s) == [i \in 1..Len(s) |-> s[Len(s) + 1 - i]]

\* the manager's fields
Fields ==
    [interactions |-> interactions, summaries |-> summaries,
     globalCounter |-> globalCounter, config |-> config]

\* [...this.summaries].reverse(): the copy is reversed; what this.summaries
\* holds after the call
StoredAfterReverseInPlace(sums) == Reverse(sums)

StoredAfterReverse(sums) == sums

\* getHydratedContext()
GetHydratedContext ==
    /\ mpc = "idle"
    /\ hydrated' = [recentHistory |-> interactions,
                    contextSummaries |-> Reverse(summaries)]
    /\ summaries' = StoredAfterReverse(summaries)
    /\ pre' = [interactions |-> interactions, summaries |-> summaries,
               counter |-> globalCounter]
    /\ lastOutcome' = "hydrated"
    /\ UNCHANGED <<interactions, config, globalCounter, mpc, callResult, assigned,
                   created, failedSince, summarizeCalls, restoredFrom, imports>>

\* getMemoryStatus(), lines 471-479: this.interactions[0]?.id and the id of
\* the last element are undefined when the window is empty
getMemoryStatusByLength ==
    [totalInteractions |-> globalCounter,
     currentWindowSize |-> Len(interactions),
     summariesCount |-> Len(summaries),
     oldestInteractionId |-> IF interactions = << >> THEN Undefined ELSE 1,
     newestInteractionId |-> IF interactions = << >> THEN Undefined
                             ELSE Len(interactions)]

getMemoryStatus ==
    [totalInteractions |-> globalCounter,
     currentWindowSize |-> Len(interactions),
     summariesCount |-> Len(summaries),
     oldestInteractionId |-> IF interactions = << >> THEN Undefined
                             ELSE interactions[1].id,
     newestInteractionId |-> IF interactions = << >> THEN Undefined
                             ELSE Last(interactions).id]

\* export(), its value written with JSON.stringify and read with JSON.parse
\* as in src/README.md:337-343: a field that is undefined is not written
export ==
    [interactions |-> Some(interactions), summaries |-> Some(summaries),
     globalCounter |-> Some(globalCounter), config |-> config]

\* { ...this.config, ...state.config }: a key state.config has wins
MergeConfig(own, given) ==
    [windowSize |-> IF given.windowSize # Undefined
                    THEN given.windowSize ELSE own.windowSize,
     maxSummaries |-> IF given.maxSummaries # Undefined
                      THEN given.maxSummaries ELSE own.maxSummaries]

\* The fields of a manager whose config was own after import(state):
\*   this.interactions = state.interactions || []; this.summaries = state.summaries || [];
\*   this.globalCounter = state.globalCounter || 0;
\*   this.config = { ...this.config, ...state.config }
import(own, state) ==
    [interactions |-> OrEmpty(state.interactions),
     summaries |-> OrEmpty(state.summaries),
     globalCounter |-> OrDefault(state.globalCounter, 0),
     config |-> MergeConfig(own, state.config)]

\* a window of n interactions with ids 1..n
StoredWindow(n) == [i \in 1..n |-> [id |-> i, role |-> "user"]]

NoConfig == [windowSize |-> Undefined, maxSummaries |-> Undefined]

\* The states import is called with: a window of up to MaxWindow + 2 stored
\* interactions and a config that is missing, has the windowSize key only or
\* has both keys; or an object without any of the fields.
ImportStates ==
    {[interactions |-> Some(StoredWindow(n)), summaries |-> Some(<< >>),
      globalCounter |-> Some(n), config |-> cfg] :
        n \in 0..(MaxWindow + 2),
        cfg \in {NoConfig,
                 [windowSize |-> 1, maxSummaries |-> Undefined],
                 [windowSize |-> 1, maxSummaries |-> 1]}}
    \cup {[interactions |-> Omitted, summaries |-> Omitted,
           globalCounter |-> Omitted, config |-> NoConfig]}

\* memory.import(state) on the manager
Import(state) ==
    /\ mpc = "idle"
    /\ imports < MaxImports
    /\ imports' = imports + 1
    /\ LET m == import(config, state)
       IN /\ interactions' = m.interactions
          /\ summaries' = m.summaries
          /\ globalCounter' = m.globalCounter
          /\ config' = m.config
    /\ pre' = [interactions |-> interactions, summaries |-> summaries,
               counter |-> globalCounter]
    /\ lastOutcome' = "imported"
    /\ restoredFrom' = NoManager
    /\ UNCHANGED <<mpc, callResult, assigned, created, failedSince, summarizeCalls,
                   hydrated>>

\* The persistence handoff: the manager's export is imported into a fresh
\* MemoryManager (new MemoryManager(), default config), which takes over.
Restore ==
    /\ mpc = "idle"
    /\ imports < MaxImports
    /\ imports' = imports + 1
    /\ LET m == import(DefaultConfig, export)
       IN /\ interactions' = m.interactions
          /\ summaries' = m.summaries
          /\ globalCounter' = m.globalCounter
          /\ config' = m.config
    /\ restoredFrom' = Fields
    /\ pre' = [interactions |-> interactions, summaries |-> summaries,
               counter |-> globalCounter]
    /\ lastOutcome' = "restored"
    /\ UNCHANGED <<mpc, callResult, assigned, created, failedSince, summarizeCalls,
                   hydrated>>

-----------------------------------------------------------------------------
(* The sessions of the API server, src/api-server.js:17-103 *)

SessionIds == {"a", "b"}

\* new MemoryManager(): the default parameter is evaluated at every call, so
\* every manager has a config object of its own
NewManager ==
    [interactions |-> << >>, summaries |-> << >>, globalCounter |-> 0,
     config |-> DefaultConfig]

\* The manager of a session after chats that were answered in turn:
\* n interactions with ids 1..n, user and ai alternating, no summary yet.
ManagerAfter(n) ==
    [interactions |-> [i \in 1..n |->
                          [id |-> i, role |-> IF i % 2 = 1 THEN "user" ELSE "ai"]],
     summaries |-> << >>, globalCounter |-> n, config |-> DefaultConfig]

\* The sessions map at the start: empty, or session "a" with a manager that
\* has answered the given number of interactions.
SesInit(sizes) ==
    /\ \E n \in sizes :
          IF n = 0
          THEN /\ managers = << >>
               /\ sessions = [sid \in SessionIds |-> 0]
          ELSE /\ managers = <<ManagerAfter(n)>>
               /\ sessions = [sid \in SessionIds |-> IF sid = "a" THEN 1 ELSE 0]
    /\ requests = << >>
    /\ actor = "none"

\* the window sizes the session "a" starts with: none, one chat short of the
\* full window, the full window
StartSizes == {0, DefaultWindowSize - 1, DefaultWindowSize}

\* sessions.has(sessionId) / sessions.get(sessionId): the key looked up
SessionKeyShared(sessionId) == "a"

SessionKey(sessionId) == sessionId

\* getSession(sessionId): the map and the objects after the call
SessionsAfterGet(sessionId) ==
    IF sessions[SessionKey(sessionId)] = 0
    THEN [sessions EXCEPT ![SessionKey(sessionId)] = Len(managers) + 1]
    ELSE sessions

ManagersAfterGet(sessionId) ==
    IF sessions[SessionKey(sessionId)] = 0
    THEN Append(managers, NewManager)
    ELSE managers

\* addInteraction on the manager m up to its return or its await
Pushed(m, role) ==
    [m EXCEPT !.globalCounter = @ + 1,
              !.interactions = Append(@, [id |-> m.globalCounter + 1, role |-> role])]

Overflowing(m) == GreaterThan(Len(m.interactions), m.config.windowSize)

\* the rest of _createSummary and of addInteraction once queryOpenAI settled:
\* the summary of the window as it is now, then the shift
Compacted(m, ok) ==
    [m EXCEPT
        !.summaries =
            IF ~ok THEN @
            ELSE IF GreaterThan(Len(@) + 1, m.config.maxSummaries)
                 THEN Tail(Append(@, [range |-> SummaryRange(m.interactions)]))
                 ELSE Append(@, [range |-> SummaryRange(m.interactions)]),
        !.interactions = Shift(@)]

\* POST /api/chat, lines 36-47: getSession, addInteraction('user', message) up
\* to its await of the summarization or, without overflow, on to the await of
\* schemaRouter.
ChatArrives(sessionId) ==
    /\ Len(requests) < MaxRequests
    /\ LET ms == ManagersAfterGet(sessionId)
           k == SessionsAfterGet(sessionId)[SessionKey(sessionId)]
           m == Pushed(ms[k], "user")
       IN /\ sessions' = SessionsAfterGet(sessionId)
          /\ managers' = [ms EXCEPT ![k] = m]
          /\ requests' = Append(requests,
                [sessionId |-> sessionId, memory |-> k, pushed |-> m.globalCounter,
                 pc |-> IF Overflowing(m) THEN "summarizingUser" ELSE "routing"])
    /\ actor' = sessionId

\* The summarization awaited by a request's addInteraction settles: the
\* summary is stored or the failure logged, the window shifted, and the
\* handler goes on (to schemaRouter, or to the response).
SummarizationSettles(r, ok) ==
    /\ requests[r].pc \in {"summarizingUser", "summarizingReply"}
    /\ managers' = [managers EXCEPT ![requests[r].memory] = Compacted(@, ok)]
    /\ requests' = [requests EXCEPT ![r].pc =
                       IF @ = "summarizingUser" THEN "routing" ELSE "responded"]
    /\ actor' = requests[r].sessionId
    /\ UNCHANGED sessions

\* schemaRouter resolves, lines 47-85: approval_required is returned, or the
\* command is handed to executeAgentCommand, or the reply is stored with
\* addInteraction('ai', ...).
RouterResolves(r, choice) ==
    /\ requests[r].pc = "routing"
    /\ actor' = requests[r].sessionId
    /\ UNCHANGED sessions
    /\ IF choice = "approval"
       THEN /\ requests' = [requests EXCEPT ![r].pc = "responded"]
            /\ UNCHANGED managers
       ELSE IF choice = "terminalCommand"
       THEN /\ requests' = [requests EXCEPT ![r].pc = "executing"]
            /\ UNCHANGED managers
       ELSE LET m == Pushed(managers[requests[r].memory], "ai")
            IN /\ managers' = [managers EXCEPT ![requests[r].memory] = m]
               /\ requests' = [requests EXCEPT
                     ![r].pushed = m.globalCounter,
                     ![r].pc = IF Overflowing(m) THEN "summarizingReply"
                               ELSE "responded"]

\* executeAgentCommand resolves, lines 60-69: addInteraction('system', ...).
CommandResolves(r) ==
    /\ requests[r].pc = "executing"
    /\ LET m == Pushed(managers[requests[r].memory], "system")
       IN /\ managers' = [managers EXCEPT ![requests[r].memory] = m]
          /\ requests' = [requests EXCEPT
                ![r].pushed = m.globalCounter,
                ![r].pc = IF Overflowing(m) THEN "summarizingReply"
                          ELSE "responded"]
    /\ actor' = requests[r].sessionId
    /\ UNCHANGED sessions

\* schemaRouter or executeAgentCommand rejects: the catch of lines 87-90
\* answers 500.
RequestFails(r) ==
    /\ requests[r].pc \in {"routing", "executing"}
    /\ requests' = [requests EXCEPT ![r].pc = "failed"]
    /\ actor' = requests[r].sessionId
    /\ UNCHANGED <<managers, sessions>>

\* GET /api/memory/:sessionId, lines 94-97: getSession and getMemoryStatus.
MemoryStatus(sessionId) ==
    /\ Len(requests) < MaxRequests
    /\ sessions' = SessionsAfterGet(sessionId)
    /\ managers' = ManagersAfterGet(sessionId)
    /\ requests' = Append(requests,
          [sessionId |-> sessionId,
           memory |-> SessionsAfterGet(sessionId)[SessionKey(sessionId)],
           pushed |-> 0, pc |-> "responded"])
    /\ actor' = sessionId

\* DELETE /api/session/:sessionId, lines 100-103: sessions.delete(sessionId).
ClearSession(sessionId) ==
    /\ Len(requests) < MaxRequests
    /\ sessions' = [sessions EXCEPT ![SessionKey(sessionId)] = 0]
    /\ requests' = Append(requests,
          [sessionId |-> sessionId, memory |-> 0, pushed |-> 0, pc |-> "responded"])
    /\ actor' = sessionId
    /\ UNCHANGED managers

-----------------------------------------------------------------------------
(* mainLoop, src/lumen-core.js:49-180 *)

\* const maxLoops = 10
maxLoops == 10

\* no response yet in this iteration
NoResponse == [missingContext |-> FALSE, choice |-> "none"]

LoopInit ==
    /\ lpc = "waiting"
    /\ agentResponse = NoResponse
    /\ isChaining = FALSE
    /\ loopCount = 0
    /\ continues = FALSE
    /\ routes = 0
    /\ lines = 0

\* while (isChaining && loopCount < maxLoops)
LoopGoesOnWhileChaining(chaining, count) == chaining

LoopGoesOn(chaining, count) == chaining /\ count < maxLoops

\* The test of the inner loop with the given values: either the body starts
\* (loopCount++, then the await of addInteraction("user", currentInput)), or
\* the loop is left and mainLoop asks for the next line.
LoopTest(chaining, count) ==
    /\ isChaining' = chaining
    /\ agentResponse' = NoResponse
    /\ IF LoopGoesOn(chaining, count)
       THEN /\ loopCount' = count + 1
            /\ lpc' = "storingUser"
       ELSE /\ loopCount' = count
            /\ lpc' = "waiting"

\* A line is read, lines 62-84: exit leaves mainLoop, status and an empty
\* line go back to the question, any other line starts the inner loop with
\* isChaining true and loopCount 0.
ReadLine(kind) ==
    /\ lpc = "waiting"
    /\ lines < MaxLines
    /\ lines' = lines + 1
    /\ IF kind = "exit"
       THEN /\ lpc' = "exited"
            /\ UNCHANGED <<isChaining, loopCount, continues, agentResponse, routes>>
       ELSE IF kind \in {"status", "empty"}
       THEN UNCHANGED <<lpc, isChaining, loopCount, continues, agentResponse, routes>>
       ELSE /\ LoopTest(TRUE, 0)
            /\ routes' = 0
            /\ continues' = FALSE

\* addInteraction("user", currentInput) resolved, lines 91-95: schemaRouter
\* is called.
UserStored ==
    /\ lpc = "storingUser"
    /\ lpc' = "routing"
    /\ routes' = routes + 1
    /\ UNCHANGED <<isChaining, loopCount, continues, agentResponse, lines>>

\* if (agentResponse.missingContext?.length > 0), line 98
ContextGateOpen(missing) == FALSE

ContextGate(missing) == missing

\* schemaRouter resolved, lines 97-150: the context gate stores the answer
\* and breaks; a terminal command is handed to executeAgentCommand; code and
\* conversation are stored with addInteraction("ai", ...).
RouterReturns(missing, choice, cont) ==
    /\ lpc = "routing"
    /\ continues' = cont
    /\ agentResponse' = [missingContext |-> missing, choice |-> choice]
    /\ lpc' = IF ContextGate(missing) THEN "storingLast"
              ELSE IF choice = "terminalCommand" THEN "executing"
              ELSE "storingReply"
    /\ UNCHANGED <<isChaining, loopCount, routes, lines>>

\* executeAgentCommand resolved, lines 124-129: the feedback is stored with
\* addInteraction("system", ...) and becomes the next input.
CommandReturns ==
    /\ lpc = "executing"
    /\ lpc' = "storingReply"
    /\ UNCHANGED <<isChaining, loopCount, continues, agentResponse, routes, lines>>

\* schemaRouter or executeAgentCommand rejected, lines 165-169: the catch
\* stores the error with addInteraction("system", ...).
IterationThrows ==
    /\ lpc \in {"routing", "executing"}
    /\ lpc' = "storingLast"
    /\ UNCHANGED <<isChaining, loopCount, continues, agentResponse, routes, lines>>

\* The addInteraction of the branch resolved, lines 158-163: isChaining =
\* agentResponse.continue, then the test of the loop.
ReplyStored ==
    /\ lpc = "storingReply"
    /\ LoopTest(continues, loopCount)
    /\ UNCHANGED <<continues, routes, lines>>

\* The addInteraction of the context gate or of the catch resolved:
\* isChaining = false, and the loop is left by the break or by its test.
LastStored ==
    /\ lpc = "storingLast"
    /\ LoopTest(FALSE, loopCount)
    /\ UNCHANGED <<continues, routes, lines>>

MemFrame == UNCHANGED <<strVars, warVars, rtrVars, qryVars, fltVars, sesVars, loopVars>>
StrFrame == UNCHANGED <<memVars, warVars, rtrVars, qryVars, fltVars, sesVars, loopVars>>
WarFrame == UNCHANGED <<memVars, strVars, rtrVars, qryVars, fltVars, sesVars, loopVars>>
RtrFrame == UNCHANGED <<memVars, strVars, warVars, qryVars, fltVars, sesVars, loopVars>>
QryFrame == UNCHANGED <<memVars, strVars, warVars, rtrVars, fltVars, sesVars, loopVars>>
FltFrame == UNCHANGED <<memVars, strVars, warVars, rtrVars, qryVars, sesVars, loopVars>>
SesFrame == UNCHANGED <<memVars, strVars, warVars, rtrVars, qryVars, fltVars, loopVars>>
LoopFrame == UNCHANGED <<memVars, strVars, warVars, rtrVars, qryVars, fltVars, sesVars>>

-----------------------------------------------------------------------------
(* Specifications *)

\* The MemoryManager under addInteraction calls made one after the other.
Init == MemInit(Configs) /\ StrInit /\ WarInit /\ RtrInit /\ QryInit
           /\ FltInit /\ SesInit({0}) /\ LoopInit

Next ==
    \/ \E role \in Roles : AddInteraction(role, MaxAdds) /\ MemFrame
    \/ SummarizeOk /\ MemFrame
    \/ SummarizeFail /\ MemFrame

Spec == Init /\ [][Next]_vars

\* The end-to-end scenario: the default manager and the manager of Test 3,
\* fed 'user' messages only, with a provider that always answers.
InitScenario == MemInit({DefaultConfig, TestConfig}) /\ StrInit /\ WarInit /\ RtrInit /\ QryInit
           /\ FltInit /\ SesInit({0}) /\ LoopInit

NextScenario ==
    \/ AddInteraction("user", ScenarioAdds) /\ MemFrame
    \/ SummarizeOk /\ MemFrame

SpecScenario == InitScenario /\ [][NextScenario]_vars

\* A manager constructed with both keys of the config, with one of them or
\* with none, used through addInteraction, import and the export/import
\* handoff to a fresh manager.
PersistConfigs ==
    {[windowSize |-> 1, maxSummaries |-> 2],
     [windowSize |-> 1, maxSummaries |-> Undefined],
     [windowSize |-> Undefined, maxSummaries |-> 1],
     DefaultConfig}

InitPersist == MemInit(PersistConfigs) /\ StrInit /\ WarInit /\ RtrInit /\ QryInit
               /\ FltInit /\ SesInit({0}) /\ LoopInit

NextPersist ==
    \/ Len(assigned) < MaxAdds /\ AddInteraction("user", MaxAdds) /\ MemFrame
    \/ SummarizeOk /\ MemFrame
    \/ SummarizeFail /\ MemFrame
    \/ \E state \in ImportStates : Import(state) /\ MemFrame
    \/ Restore /\ MemFrame

SpecPersist == InitPersist /\ [][NextPersist]_vars

\* The MemoryManager read through getHydratedContext between addInteraction
\* calls.
InitHydrate == MemInit(Configs) /\ StrInit /\ WarInit /\ RtrInit /\ QryInit
               /\ FltInit /\ SesInit({0}) /\ LoopInit

NextHydrate ==
    \/ AddInteraction("user", MaxAdds) /\ MemFrame
    \/ SummarizeOk /\ MemFrame
    \/ SummarizeFail /\ MemFrame
    \/ GetHydratedContext /\ MemFrame

SpecHydrate == InitHydrate /\ [][NextHydrate]_vars

\* One invocation of streamCommand and the life of its child process.
InitStream == MemInit({DefaultConfig}) /\ StrInit /\ WarInit /\ RtrInit /\ QryInit
           /\ FltInit /\ SesInit({0}) /\ LoopInit

NextStream ==
    \/ \E c \in Commands, spawnOk \in BOOLEAN, ign \in BOOLEAN, from \in Proposals :
          StreamInvoke(c, spawnOk, ign, from) /\ StrFrame
    \/ \E kind \in {"stdout", "stderr"} : ProcData(kind) /\ StrFrame
    \/ \E code \in {0, 1} : ProcExits(code) /\ StrFrame
    \/ ProcDiesOfSignal /\ StrFrame
    \/ ProcError /\ StrFrame
    \/ ProcClose /\ StrFrame
    \/ TimeoutFires /\ StrFrame
    \/ GraceFires /\ StrFrame

SpecStream == InitStream /\ [][NextStream]_vars

\* streamCommand with the scheduling Node guarantees: a timer that is armed
\* fires, an event that is due is emitted (the error of a failed spawn, the
\* close of a child that has ended), and a delivered signal that the child
\* does not ignore ends it.  A child is not obliged to exit by itself.
SpecStreamFair ==
    /\ InitStream
    /\ [][NextStream]_vars
    /\ WF_vars(TimeoutFires /\ StrFrame)
    /\ WF_vars(GraceFires /\ StrFrame)
    /\ WF_vars(ProcDiesOfSignal /\ StrFrame)
    /\ WF_vars(ProcError /\ StrFrame)
    /\ WF_vars(ProcClose /\ StrFrame)

\* One invocation of runWarRoom.
InitWarRoom == MemInit({DefaultConfig}) /\ StrInit /\ WarInit /\ RtrInit /\ QryInit
           /\ FltInit /\ SesInit({0}) /\ LoopInit

NextWarRoom ==
    \/ RunWarRoom /\ WarFrame
    \/ \E a \in AnalysisOutputs : AnalysisReturns(a) /\ WarFrame
    \/ AnalysisFails /\ WarFrame
    \/ \E t \in TestingOutputs : TestingReturns(t) /\ WarFrame
    \/ TestingFails /\ WarFrame

SpecWarRoom == InitWarRoom /\ [][NextWarRoom]_vars

\* One invocation of schemaRouter.
InitRouter == MemInit({DefaultConfig}) /\ StrInit /\ WarInit /\ RtrInit /\ QryInit
           /\ FltInit /\ SesInit({0}) /\ LoopInit

NextRouter ==
    \/ \E input \in Inputs : SchemaRouter(input) /\ RtrFrame
    \/ QuickReturns /\ RtrFrame
    \/ QuickFails /\ RtrFrame
    \/ \E name \in ClassifiedNames : ClassifyReturns(name) /\ RtrFrame
    \/ ClassifyFails /\ RtrFrame
    \/ DispatchReturns /\ RtrFrame
    \/ DispatchFails /\ RtrFrame
    \/ FallbackReturns /\ RtrFrame
    \/ FallbackFails /\ RtrFrame

SpecRouter == InitRouter /\ [][NextRouter]_vars

\* One invocation of queryOpenAI.  Every create call settles and every backoff
\* timer fires, so a step that is possible is eventually taken.
InitQuery == MemInit({DefaultConfig}) /\ StrInit /\ WarInit /\ RtrInit /\ QryInit
           /\ FltInit /\ SesInit({0}) /\ LoopInit

NextQuery ==
    \/ \E mr \in RetryOptions : QueryOpenAI(mr) /\ QryFrame
    \/ AttemptSucceeds /\ QryFrame
    \/ \E error \in Errors : AttemptFails(error) /\ QryFrame
    \/ BackoffEnds /\ QryFrame

SpecQuery == InitQuery /\ [][NextQuery]_vars /\ WF_vars(NextQuery)

\* Calls of isDangerous made one after the other.
InitFilter == MemInit({DefaultConfig}) /\ StrInit /\ WarInit /\ RtrInit /\ QryInit
              /\ FltInit /\ SesInit({0}) /\ LoopInit

NextFilter == \E c \in Commands : IsDangerousCall(c) /\ FltFrame

SpecFilter == InitFilter /\ [][NextFilter]_vars

\* The API server under requests for two sessions, interleaved at every await.
InitSessions == MemInit({DefaultConfig}) /\ StrInit /\ WarInit /\ RtrInit /\ QryInit
                /\ FltInit /\ SesInit(StartSizes) /\ LoopInit

NextSessions ==
    \/ \E sid \in SessionIds : ChatArrives(sid) /\ SesFrame
    \/ \E r \in 1..Len(requests), ok \in BOOLEAN :
          SummarizationSettles(r, ok) /\ SesFrame
    \/ \E r \in 1..Len(requests),
          choice \in {"conversational", "terminalCommand", "approval"} :
          RouterResolves(r, choice) /\ SesFrame
    \/ \E r \in 1..Len(requests) : CommandResolves(r) /\ SesFrame
    \/ \E r \in 1..Len(requests) : RequestFails(r) /\ SesFrame
    \/ \E sid \in SessionIds : MemoryStatus(sid) /\ SesFrame
    \/ \E sid \in SessionIds : ClearSession(sid) /\ SesFrame

SpecSessions == InitSessions /\ [][NextSessions]_vars

\* mainLoop under every line and every answer of the router and the executor.
InitMainLoop == MemInit({DefaultConfig}) /\ StrInit /\ WarInit /\ RtrInit /\ QryInit
                /\ FltInit /\ SesInit({0}) /\ LoopInit

NextMainLoop ==
    \/ \E kind \in {"exit", "status", "empty", "text"} : ReadLine(kind) /\ LoopFrame
    \/ UserStored /\ LoopFrame
    \/ \E missing \in BOOLEAN, cont \in BOOLEAN,
          choice \in {"conversational", "code", "terminalCommand"} :
          RouterReturns(missing, choice, cont) /\ LoopFrame
    \/ CommandReturns /\ LoopFrame
    \/ IterationThrows /\ LoopFrame
    \/ ReplyStored /\ LoopFrame
    \/ LastStored /\ LoopFrame

SpecMainLoop == InitMainLoop /\ [][NextMainLoop]_vars

-----------------------------------------------------------------------------
(* Claims about the MemoryManager *)

\* C1: whenever an addInteraction call has returned (calls made one after the
\* other, summarization succeeding or failing), the window holds at most
\* windowSize interactions.
C1_WindowBound ==
    mpc = "idle" => Len(interactions) <= config.windowSize

\* An overflowing call has returned after a failed summarization and the
\* window is exactly full.
C1_Witness ==
    /\ mpc = "idle"
    /\ lastOutcome = "summaryFailed"
    /\ config.windowSize > 0
    /\ Len(interactions) = config.windowSize

\* C5: the ids assigned by addInteraction are strictly increasing, so no id
\* is assigned twice, also after interactions were evicted.
C5_SequenceMonotonic ==
    \A i \in 1..Len(assigned), j \in 1..Len(assigned) :
        i < j => assigned[i] < assigned[j]

\* Ids were assigned after an eviction took place.
C5_Witness ==
    /\ mpc = "idle"
    /\ config.windowSize >= 1
    /\ Len(assigned) >= config.windowSize + 2

\* C6 (as amended): two summaries created one after the other with no failed
\* summarization between them have ranges that overlap: both ends of the
\* second are one above those of the first.
C6_RangesAdvanceByOne ==
    \A i \in 1..(Len(created) - 1) :
        ~created[i + 1].afterFailure =>
            /\ created[i + 1].range.startId = created[i].range.startId + 1
            /\ created[i + 1].range.endId = created[i].range.endId + 1

\* C6 (as stated): the second range starts right after the end of the first.
C6_RangesContiguous ==
    \A i \in 1..(Len(created) - 1) :
        ~created[i + 1].afterFailure =>
            created[i + 1].range.startId = created[i].range.endId + 1

\* Two summaries were created back to back over a window of several items.
C6_Witness ==
    /\ Len(created) >= 2
    /\ ~created[2].afterFailure
    /\ config.windowSize >= 2

\* C8: the summaries kept are the last maxSummaries summaries created, in
\* creation order; never more than maxSummaries.
C8_KeepsMostRecent ==
    LET n == Len(created)
        k == IF n < config.maxSummaries THEN n ELSE config.maxSummaries
    IN /\ Len(summaries) <= config.maxSummaries
       /\ Len(summaries) = k
       /\ \A i \in 1..k : summaries[i].range = created[n - k + i].range

\* More summaries were created than are kept: the oldest was evicted.
C8_Witness ==
    /\ config.maxSummaries >= 2
    /\ Len(created) > config.maxSummaries
    /\ Len(summaries) = config.maxSummaries

\* C9: an overflowing addInteraction whose summarization failed has returned
\* normally, left the summaries as they were, advanced the counter by one and
\* evicted exactly the oldest interaction.
C9_FailureStillEvicts ==
    (mpc = "idle" /\ lastOutcome = "summaryFailed") =>
        /\ callResult = "returned"
        /\ summaries = pre.summaries
        /\ globalCounter = pre.counter + 1
        /\ Len(interactions) = Len(pre.interactions)
        /\ \A i \in 1..(Len(interactions) - 1) : interactions[i] = pre.interactions[i + 1]
        /\ interactions # <<>> => Last(interactions).id = globalCounter

\* A failed summarization on a manager that already holds a summary and a
\* window of several interactions.
C9_Witness ==
    /\ mpc = "idle"
    /\ lastOutcome = "summaryFailed"
    /\ summaries # <<>>
    /\ Len(interactions) >= 2

\* C7 (as amended): 22 calls on an empty manager with windowSize 21 and a
\* provider that always answers leave one summary of range 1..22 and a window
\* of the 21 interactions 2..22.
C7_ScenarioOverlap ==
    (config = DefaultConfig /\ globalCounter = DefaultWindowSize + 1 /\ mpc = "idle") =>
        /\ Len(summaries) = 1
        /\ summaries[1].range = [startId |-> 1, endId |-> DefaultWindowSize + 1]
        /\ Ids(interactions) = [i \in 1..DefaultWindowSize |-> i + 1]

\* C7 (as stated): one summary of range 1..21 and a window holding only
\* interaction 22.
C7_ScenarioAsStated ==
    (config = DefaultConfig /\ globalCounter = DefaultWindowSize + 1 /\ mpc = "idle") =>
        /\ Len(summaries) = 1
        /\ summaries[1].range = [startId |-> 1, endId |-> DefaultWindowSize]
        /\ Ids(interactions) = <<DefaultWindowSize + 1>>

\* The 22nd call on the default manager has returned.
C7_Witness ==
    /\ config = DefaultConfig
    /\ globalCounter = DefaultWindowSize + 1
    /\ mpc = "idle"
    /\ lastOutcome = "summarized"

-----------------------------------------------------------------------------
(* Claims about streamCommand *)

SpawnMessages == {"start", "stdout", "stderr", "complete"}

C4_TimeoutStatus ==
    (result # NoResult /\ firedWhileAlive) =>
        /\ result.status = "timeout"
        /\ result.killed = TRUE

-----------------------------------------------------------------------------
(* Claims about runWarRoom *)

HasCriticalIssue(a) ==
    /\ a.issues # Omitted
    /\ \E i \in 1..Len(a.issues[1]) : a.issues[1][i] \in {"critical", "high"}

SuppliedTests(t) == IF t.tests = Omitted THEN 0 ELSE Len(t.tests[1])

\* C3: the verdict is APPROVED exactly when the quality score is at least 75,
\* there are at least 2 tests and no issue is critical or high; it is REJECTED
\* otherwise, whatever else the two roles returned.
C3_VerdictRule ==
    wpc = "done" =>
        /\ verdict.verdict \in {"APPROVED", "REJECTED"}
        /\ verdict.verdict = "APPROVED" <=>
              /\ verdict.qualityScore >= 75
              /\ analysis.score # Omitted
              /\ analysis.score[1] >= 75
              /\ SuppliedTests(testPlan) >= 2
              /\ ~HasCriticalIssue(analysis)
        /\ (verdict.qualityScore = 80 /\ verdict.testCount = 3
                /\ verdict.criticalIssues = << >>) => verdict.verdict = "APPROVED"
        /\ (verdict.qualityScore = 74 /\ verdict.testCount = 5
                /\ verdict.criticalIssues = << >>) => verdict.verdict = "REJECTED"
        /\ (verdict.qualityScore = 90 /\ verdict.testCount = 1
                /\ verdict.criticalIssues = << >>) => verdict.verdict = "REJECTED"
        /\ (verdict.qualityScore = 90 /\ verdict.testCount = 5
                /\ Len(verdict.criticalIssues) = 1) => verdict.verdict = "REJECTED"

\* A proposal was approved on the lowest passing score with exactly two tests
\* and a harmless issue.
C3_Witness ==
    /\ wpc = "done"
    /\ verdict.verdict = "APPROVED"
    /\ analysis.score = Some(75)
    /\ verdict.testCount = 2
    /\ analysis.issues = Some(<<"low">>)

-----------------------------------------------------------------------------
(* Claims about schemaRouter *)

\* word occurs in s when the case of letters is ignored
ContainsIgnoringCase(s, word) ==
    \E i \in 1..Len(s) :
        /\ i + Len(word) - 1 <= Len(s)
        /\ \A k \in 1..Len(word) :
              \/ s[i + k - 1] = word[k]
              \/ \E n \in 1..Len(LowerLetters) :
                    LowerLetters[n] = word[k] /\ UpperLetters[n] = s[i + k - 1]

Triggers(input, agentType) ==
    \E word \in keywords(agentType) : ContainsIgnoringCase(input, word)

\* C10 (as amended): an input containing a trigger phrase is dispatched to the
\* first agent, in the order scaffold, fileOp, analyze, test, docs, one of whose
\* phrases it contains, and the classification call is never issued.
C10_FirstKeywordWins ==
    rpc # "idle" =>
        \A i \in 1..Len(AgentOrder) :
            (/\ Triggers(userInput, AgentOrder[i])
             /\ \A j \in 1..(i - 1) : ~Triggers(userInput, AgentOrder[j]))
            => /\ rcalls = <<AgentOrder[i]>>
               /\ rpc = "done" => routed = AgentOrder[i]

\* C10 (as stated): an input containing a trigger phrase of an agent is
\* dispatched to that agent, and the classification call is never issued.
C10_EveryKeywordWins ==
    rpc # "idle" =>
        \A i \in 1..Len(AgentOrder) :
            Triggers(userInput, AgentOrder[i])
            => /\ rcalls = <<AgentOrder[i]>>
               /\ rpc = "done" => routed = AgentOrder[i]

\* 'UNIT TEST Document' holds phrases of test and of docs; the response of the
\* test schema was returned.
C10_Witness ==
    /\ rpc = "done"
    /\ userInput = JoinFragments(<<FragUnitTest, FragDocument>>)
    /\ routed = "test"

\* C11: whenever a provider call of schemaRouter raises -- the classification
\* call or the final dispatch call, on the keyword fast path as on the
\* classification path -- one further call is made with the default schema,
\* and the error reaches the caller only when that call failed too: a router
\* that threw has made at least two calls, the last with the default schema.
C11_FailureRetriesDefault ==
    rpc = "threw" => Len(rcalls) >= 2 /\ Last(rcalls) = "default"

\* no trigger phrase of any agent occurs in the input
NoTrigger(input) == \A i \in 1..Len(AgentOrder) : ~Triggers(input, AgentOrder[i])

\* C12: when no trigger phrase matches, the first call is the one
\* classification call, and the call after it uses the schema of the agent the
\* classification names, or the default schema when that name is not a key
\* of the registry.
C12_ClassifiedDispatch ==
    (rpc # "idle" /\ NoTrigger(userInput)) =>
        /\ rcalls[1] = "intentClassification"
        /\ \A i \in 2..Len(rcalls) : rcalls[i] # "intentClassification"
        /\ classification # "none" =>
              rcalls[2] = IF classification \in RegistryKeys
                          THEN classification ELSE "default"

-----------------------------------------------------------------------------
(* Claims about queryOpenAI *)

\* a failure with status 429 or with a status from 500 to 599
Transient(error) == error.status \in {Some(429)} \cup {Some(n) : n \in 500..599}

\* C13: queryOpenAI retries only failures with status 429 or 5xx: every backoff
\* delay follows such a failure, and any other failure (another 4xx status, a
\* response that cannot be parsed) is the last one: it is the error the call
\* rejects with, no create call and no delay comes after it.
C13_RetriesOnlyTransient ==
    /\ \A i \in 1..Len(delays) : Transient(errors[i])
    /\ \A i \in 1..Len(errors) :
          ~Transient(errors[i]) =>
              /\ i = Len(errors)
              /\ qpc = "threw"
              /\ thrown = errors[i]
              /\ creates = i
              /\ Len(delays) = i - 1

\* A rate-limited attempt was retried, the retry got an unparsable response,
\* and that error was propagated with two of the three retries unused.
C13_Witness ==
    /\ qpc = "threw"
    /\ maxRetries = DefaultMaxRetries
    /\ Len(errors) = 2
    /\ errors[1].status = Some(429)
    /\ thrown.name = "SyntaxError"
    /\ delays = <<1000>>

Settled == qpc \in {"returned", "threw"}

\* C14: queryOpenAI ends after at most maxRetries + 1 attempts (4 by default):
\* a call that was started settles; the first success is returned with no
\* attempt after it; the k-th retry is preceded by a wait of 1000 * 2^(k-1) ms;
\* and when the attempt numbered maxRetries fails, its error is the one
\* propagated.
C14_BoundedBackoff ==
    /\ [](/\ creates <= maxRetries + 1
          /\ maxRetries = DefaultMaxRetries => creates <= 4
          /\ qpc = "returned" => creates = Len(errors) + 1
          /\ \A k \in 1..Len(delays) : delays[k] = 1000 * (2 ^ (k - 1))
          /\ qpc = "calling" => creates = Len(delays) + 1
          /\ qpc = "sleeping" => creates = Len(delays)
          /\ Len(errors) = maxRetries + 1 =>
                /\ qpc = "threw"
                /\ thrown = Last(errors)
                /\ thrown.at = maxRetries)
    /\ [][Settled => UNCHANGED qryVars]_vars
    /\ (qpc = "calling" ~> Settled)

\* The default call failed four times with retryable errors: three waits of
\* 1 s, 2 s and 4 s, then the fourth error was propagated.
C14_Witness ==
    /\ qpc = "threw"
    /\ maxRetries = DefaultMaxRetries
    /\ creates = 4
    /\ delays = <<1000, 2000, 4000>>
    /\ thrown.at = 3

-----------------------------------------------------------------------------
(* Further claims about runWarRoom *)

\* C15: the testing call is issued only after the analysis call has returned
\* (and is the second call); when either call fails runWarRoom throws and
\* returns no verdict; when the analysis call fails the testing call is never
\* issued.  A verdict exists only when both calls returned.
C15_NoPartialVerdict ==
    /\ (\E i \in 1..Len(wcalls) : wcalls[i] = "testingAgentSchema") =>
          /\ analysis # NoOutput
          /\ wcalls = <<"codeAnalyzerAgentSchema", "testingAgentSchema">>
    /\ wpc = "threw" => verdict = NoVerdict
    /\ (wpc = "threw" /\ analysis = NoOutput) => wcalls = <<"codeAnalyzerAgentSchema">>
    /\ verdict # NoVerdict =>
          /\ wpc = "done"
          /\ analysis # NoOutput
          /\ testPlan # NoOutput

\* The analysis call returned, the testing call was issued and failed:
\* runWarRoom threw and there is no verdict.
C15_Witness ==
    /\ wpc = "threw"
    /\ analysis # NoOutput
    /\ wcalls = <<"codeAnalyzerAgentSchema", "testingAgentSchema">>
    /\ verdict = NoVerdict

\* C16: the verdict's qualityScore is the score the analysis role supplied,
\* whatever number from 0 to 100 that is, and 50 only when the role omitted the
\* score; with the default 50 the verdict is REJECTED.
C16_ScoreAsSupplied ==
    wpc = "done" =>
        /\ analysis.score # Omitted => verdict.qualityScore = analysis.score[1]
        /\ analysis.score = Omitted =>
              /\ verdict.qualityScore = 50
              /\ verdict.verdict = "REJECTED"

-----------------------------------------------------------------------------
(* Further claims about streamCommand *)

\* the number of messages of the given types sent on the channel
Sent(types) == Cardinality({i \in 1..Len(channel) : channel[i] \in types})

\* the attempt is over: the command was blocked, or the child's close event
\* was handled
AttemptOver == invoked /\ (~spawned \/ procState = "closed")

\* C17: after every execution attempt -- a blocked command, a completion with
\* success or error, a timeout, a failure to spawn -- logCommand has been
\* called for that attempt.
C17_EveryAttemptAudited == AttemptOver => Len(audit) = 1

\* C18: once the timeout timer has fired and the 5 s grace timer after it,
\* SIGKILL has been sent to a child that had not exited by then, also when
\* SIGTERM was delivered and ignored; and a child that exited within the grace
\* period was sent no second signal.
C18_GraceEscalates ==
    /\ (grace = "fired" /\ procState = "alive") =>
          \E i \in 1..Len(signals) : signals[i] = "SIGKILL"
    /\ (grace = "fired" /\ procState # "alive" /\ firedWhileAlive) =>
          Len(signals) = 1

\* the execution started running: the child was spawned
StartedRunning == spawned /\ procState \notin {"failed", "failedReported"}
                          /\ exitCode # SpawnErrno

\* C19: an execution that started running reports one terminal outcome among
\* success, error and timeout: a timeout only when the timer fired, a
\* completion with success or error only when the child exited without the
\* timer firing, never both, exactly one once the child has closed; and the
\* start of the run is reported once.
C19_OneTerminalOutcome ==
    StartedRunning =>
        /\ Sent({"timeout", "complete"}) <= 1
        /\ procState = "closed" => Sent({"timeout", "complete"}) = 1
        /\ Sent({"timeout"}) = 1 => timer = "fired"
        /\ Sent({"complete"}) = 1 =>
              /\ timer # "fired"
              /\ result.status \in {"success", "error"}
        /\ Sent({"start"}) = 1

-----------------------------------------------------------------------------
(* Claims about isDangerous *)

-----------------------------------------------------------------------------
(* Claims about getHydratedContext, export and import *)

\* C21: getHydratedContext returns recentHistory equal to the window, oldest
\* first, and contextSummaries equal to the stored summaries newest first (the
\* reverse of the order of creation), and leaves the window, the stored
\* summaries and the counter as they were.
C21_HydratedContext ==
    lastOutcome = "hydrated" =>
        /\ hydrated.recentHistory = interactions
        /\ \A i \in 1..(Len(interactions) - 1) :
              hydrated.recentHistory[i].id < hydrated.recentHistory[i + 1].id
        /\ Len(hydrated.contextSummaries) = Len(summaries)
        /\ \A i \in 1..Len(summaries) :
              /\ hydrated.contextSummaries[i] = summaries[Len(summaries) + 1 - i]
              /\ hydrated.contextSummaries[i].range
                    = created[Len(created) + 1 - i].range
        /\ interactions = pre.interactions
        /\ summaries = pre.summaries
        /\ globalCounter = pre.counter

\* The context was read from a manager holding two interactions and two
\* summaries.
C21_Witness ==
    /\ lastOutcome = "hydrated"
    /\ Len(interactions) = 2
    /\ Len(summaries) = 2
    /\ hydrated.contextSummaries[1] = summaries[2]
    /\ summaries[1] # summaries[2]

-----------------------------------------------------------------------------
(* Claims about the sessions of the API server *)

\* the Memory State a session id stands for: the manager the map holds
SessionState(sessionId) ==
    IF sessions[sessionId] = 0 THEN NoManager ELSE managers[sessions[sessionId]]

Suspended(r) == requests[r].pc \in {"summarizingUser", "summarizingReply"}

\* C24: a step taken for one session (a chat's addInteraction, the
\* compaction that follows it, the clearing of the session) leaves the
\* window, summaries, counter and config of every other session as they were,
\* whatever the interleaving of the requests.
C24_SessionIsolation ==
    [][\A sid \in SessionIds :
          sid # actor' => SessionState(sid)' = SessionState(sid)]_vars

\* C24 witness: a request of session "b" has just added to its own memory
\* while a request of session "a" is suspended in a summarization.
C24_Witness ==
    /\ actor = "b"
    /\ sessions["a"] # 0 /\ sessions["b"] # 0
    /\ Len(SessionState("b").interactions) > 0
    /\ \E r \in 1..Len(requests) :
          requests[r].sessionId = "a" /\ Suspended(r)

\* C25: while a request's addInteraction is suspended in summarization, no
\* other request has started to mutate the same Memory State: no second
\* request is suspended on it, and none has added an interaction after the
\* suspended one's.
C25_OneAddInFlight ==
    \A r1, r2 \in 1..Len(requests) :
        (r1 # r2 /\ requests[r1].memory = requests[r2].memory /\ Suspended(r1)) =>
            /\ ~Suspended(r2)
            /\ requests[r2].pushed <= requests[r1].pushed

-----------------------------------------------------------------------------
(* Claims about the gating of the streaming variant *)

\* C26: a command whose proposal requires approval and has not been approved
\* is never spawned by the streaming path, and an approval-required outcome
\* is reported on the channel instead.
C26_StreamGated ==
    (invoked /\ proposal.requiresApproval /\ ~proposal.approved) =>
        /\ ~spawned
        /\ Sent({"approval_required"}) > 0

-----------------------------------------------------------------------------
(* Claims about mainLoop *)

\* C27: for each line of input mainLoop makes at most 10 calls of the
\* router, and once the tenth iteration has stored its result it goes back
\* to waiting for input, whatever the responses set in continue.
C27_BoundedChaining ==
    [][/\ routes' <= maxLoops
       /\ (loopCount = maxLoops /\ lpc \in {"storingReply", "storingLast"}) =>
              lpc' = "waiting"]_vars

\* C27 witness: mainLoop is waiting again after ten router calls for one
\* line, the last response still asking to continue.
C27_Witness ==
    lpc = "waiting" /\ routes = maxLoops /\ continues /\ isChaining

-----------------------------------------------------------------------------
(* Claims about the summarization call of addInteraction *)

\* C28: after an overflowing addInteraction whose summarization succeeded,
\* the range of the summary runs from the id of the oldest interaction of the
\* window to the id just added (1 to 22 on the 22nd call with windowSize 21),
\* exactly the oldest interaction has been removed, and the window holds the
\* windowSize most recent interactions.
C28_SummaryThenEvictOldest ==
    (mpc = "idle" /\ lastOutcome = "summarized") =>
        LET overflowed == Append(Ids(pre.interactions), globalCounter)
        IN /\ Last(created).range =
                  [startId |-> overflowed[1], endId |-> globalCounter]
           /\ (config = DefaultConfig /\ globalCounter = DefaultWindowSize + 1) =>
                  Last(created).range = [startId |-> 1, endId |-> 22]
           /\ Ids(interactions) = Tail(overflowed)
           /\ Ids(interactions) =
                  [i \in 1..config.windowSize |-> globalCounter - config.windowSize + i]

\* C28 witness: the first overflow of the default manager was summarized with
\* range 1..22 and the window is back at 21 interactions.
C28_Witness ==
    /\ mpc = "idle"
    /\ lastOutcome = "summarized"
    /\ config.windowSize = 21
    /\ Last(created).range = [startId |-> 1, endId |-> 22]
    /\ Len(interactions) = 21

\* C29: addInteraction issues a summarization call exactly when the window
\* is longer than windowSize after the append: the first windowSize calls on
\* an empty manager issue none, every later call issues exactly one, and each
\* call covers the whole window of that moment, the new interaction included.
C29_SummarizesExactlyOnOverflow ==
    /\ Len(summarizeCalls) =
          IF globalCounter > config.windowSize
          THEN globalCounter - config.windowSize ELSE 0
    /\ \A k \in 1..Len(summarizeCalls) :
          summarizeCalls[k] = [i \in 1..(config.windowSize + 1) |-> k - 1 + i]

\* C29 witness: a manager with a window of two has filled it without a call
\* and has then summarized on each of several later calls.
C29_Witness ==
    /\ config.windowSize = 2
    /\ mpc = "idle"
    /\ Len(summarizeCalls) >= 3
    /\ summarizeCalls[1] = <<1, 2, 3>>

\* C30: a manager constructed with only one of windowSize and maxSummaries
\* uses the default for the other (21 and 3): its summaries never exceed the
\* default maxSummaries and its window, between calls, never exceeds the
\* default windowSize.
C30_PartialConfigDefaults ==
    imports = 0 =>
        /\ config.maxSummaries = Undefined =>
              Len(summaries) <= DefaultMaxSummaries
        /\ (config.windowSize = Undefined /\ mpc = "idle") =>
              Len(interactions) <= DefaultWindowSize

-----------------------------------------------------------------------------
(* Claims about the timer, the messages and the settling of streamCommand *)

\* C31: a signal is sent to the child only after the timeout timer has
\* fired; when the child exits before the timeout elapses the timer does not
\* fire any more, so no timeout message is emitted and no signal is sent.
C31_TimerOnlyWhileRunning ==
    /\ signals # << >> => timer = "fired"
    /\ StartedRunning =>
          /\ timer = "fired" => firedWhileAlive
          /\ Sent({"timeout"}) > 0 => firedWhileAlive
          /\ ~firedWhileAlive => signals = << >>

\* C32: an invocation that was not blocked sends exactly one start message,
\* as the first message; at most one complete message, with no stdout or
\* stderr message after it; and the result carried by complete is the result
\* the invocation returns (its promise resolved with it).
C32_StartFirstCompleteLast ==
    (invoked /\ rejectedWith # "Dangerous command blocked") =>
        /\ Sent({"start"}) = 1
        /\ channel[1] = "start"
        /\ Sent({"complete"}) <= 1
        /\ \A i, j \in 1..Len(channel) :
              (i < j /\ channel[i] = "complete") =>
                  channel[j] \notin {"stdout", "stderr"}
        /\ Sent({"complete"}) = 1 =>
              /\ settled = "resolved"
              /\ result # NoResult

\* C33: every invocation that was not blocked eventually settles (its
\* promise resolves or rejects) once the timers have had their time, also
\* when the child ignores SIGTERM.
C33_EventuallySettles ==
    (invoked /\ rejectedWith # "Dangerous command blocked") ~> (settled # "pending")

\* C40: once the invocation has settled -- resolved on the close of the
\* child, rejected on a spawn error or for a blocked command -- no further
\* message is sent on the channel and no signal is sent to the child.
C40_QuietAfterSettling ==
    [][settled # "pending" => (channel' = channel /\ signals' = signals)]_vars

\* the number of messages of the given types the WebSocket client was sent
Received(types) == Cardinality({i \in 1..Len(client) : client[i] \in types})

\* C39: for a dangerous command received as an execute message the client is
\* sent exactly one error message, and no ack or start message announcing
\* that the execution started.
C39_BlockedExecuteMessage ==
    (invoked /\ isDangerous(command)) =>
        /\ Received({"error"}) = 1
        /\ Received({"ack", "start"}) = 0

-----------------------------------------------------------------------------
(* Claims about the context gate of mainLoop *)

\* C34: when the routed response has a non-empty missingContext, the
\* iteration executes no terminal command -- it only stores the answer -- and
\* chaining stops: mainLoop goes back to waiting with isChaining false, also
\* when the response has choice terminalCommand and continue true.
C34_ContextGateStops ==
    [][/\ agentResponse'.missingContext => lpc' = "storingLast"
       /\ agentResponse.missingContext => (lpc' = "waiting" /\ ~isChaining')]_vars

\* C34 witness: a response with missing context, choice terminalCommand and
\* continue true is being stored by the gate.
C34_Witness ==
    /\ agentResponse.missingContext
    /\ agentResponse.choice = "terminalCommand"
    /\ continues
    /\ lpc = "storingLast"

-----------------------------------------------------------------------------
(* Claims about getMemoryStatus *)

\* the window holds consecutive ids in increasing order
ConsecutiveIds ==
    \A i \in 1..(Len(interactions) - 1) :
        interactions[i + 1].id = interactions[i].id + 1

\* C35 (as amended): the window holds consecutive ids in increasing order
\* and, when the window is non-empty, getMemoryStatus reports
\* newestInteractionId = totalInteractions and oldestInteractionId =
\* totalInteractions - currentWindowSize + 1; for an empty window it reports
\* both ids as undefined.
C35_StatusOfWindow ==
    /\ ConsecutiveIds
    /\ interactions # << >> =>
          /\ getMemoryStatus.newestInteractionId = getMemoryStatus.totalInteractions
          /\ getMemoryStatus.oldestInteractionId =
                getMemoryStatus.totalInteractions
                    - getMemoryStatus.currentWindowSize + 1
    /\ interactions = << >> =>
          /\ getMemoryStatus.newestInteractionId = Undefined
          /\ getMemoryStatus.oldestInteractionId = Undefined

\* C35 (as stated): after any addInteraction calls newestInteractionId =
\* totalInteractions, whether the window is empty or not.
C35_StatusAsStated ==
    globalCounter >= 1 =>
        /\ ConsecutiveIds
        /\ getMemoryStatus.newestInteractionId = getMemoryStatus.totalInteractions
        /\ interactions # << >> =>
              getMemoryStatus.oldestInteractionId =
                  getMemoryStatus.totalInteractions
                      - getMemoryStatus.currentWindowSize + 1

\* C35 witness: the status of a full window of two after evictions.
C35_Witness ==
    /\ mpc = "idle"
    /\ globalCounter >= 4
    /\ getMemoryStatus.currentWindowSize = 2
    /\ getMemoryStatus.oldestInteractionId = globalCounter - 1

-----------------------------------------------------------------------------
(* Claims about overlapping addInteraction calls *)

\* the requests whose addInteraction is suspended on the manager k
SuspendedOn(k) ==
    {r \in 1..Len(requests) : requests[r].memory = k /\ Suspended(r)}

\* C36: when addInteraction calls on one MemoryManager overlap, its window
\* never holds more than windowSize + 1 interactions, and at most windowSize
\* once no call is suspended on it.
C36_OverlapKeepsBound ==
    \A k \in 1..Len(managers) :
        /\ Len(managers[k].interactions) <= managers[k].config.windowSize + 1
        /\ SuspendedOn(k) = {} =>
              Len(managers[k].interactions) <= managers[k].config.windowSize

-----------------------------------------------------------------------------
(* Claims about the summary and the issues of a verdict *)

\* C37: the quality score and the coverage shown in the summary of a verdict
\* are that verdict's qualityScore and testing.coverage, also when the
\* analysis omits the score or the test plan omits the coverage target.
C37_SummaryShowsVerdict ==
    wpc = "done" =>
        /\ verdict.summaryScore = verdict.qualityScore
        /\ verdict.summaryCoverage = verdict.coverage

\* a response of the analysis role that conforms to codeAnalyzerAgentSchema:
\* codeQuality holds score and issuesFound and no other property
ConformsToSchema(a) == a.score # Omitted /\ a.issues = Omitted

\* C38: the issues a schema-conforming analysis reports in
\* codeQuality.issuesFound are the issues runWarRoom evaluates: when that
\* list is non-empty, so is the verdict's analysis.issues.
C38_ReportedIssuesEvaluated ==
    (wpc = "done" /\ ConformsToSchema(analysis) /\ analysis.issuesFound # << >>) =>
        verdict.issues # << >>

====
